---- MODULE Spec2Model ----
(***************************************************************************)
(* CoffeeOrderBuilder / CoffeeOrder of src/main.py as a state machine.     *)
(*                                                                         *)
(* One builder object is driven by a caller that invokes its methods one   *)
(* after the other.  The builder's six fields are the state; `ret` is the  *)
(* outcome of the last call (which method, the source line it returned or  *)
(* raised at, the exception, the returned object); `held` is an Order the  *)
(* caller has kept from an earlier build.  `everSet` and `since` record    *)
(* the history of the calls: whether set_base and set_size have ever       *)
(* succeeded and, since construction or the last clear_extras, whether an  *)
(* extras method was called and which names add_syrup was given.           *)
(*                                                                         *)
(* Python values are modelled as follows.                                  *)
(*   str            a syrup name is a sequence of one-character strings,   *)
(*                  so that strip() and lower() are computed; enumeration  *)
(*                  members (base, size, milk) are TLA+ strings.           *)
(*   int/bool/...   [t |-> type name, v |-> number].  bool is a subclass   *)
(*                  of int in Python: True has v = 1 and prints "True".    *)
(*   float price    an integer number of tenths (every price of the fixed  *)
(*                  tables is an exact multiple of 0.1 and the float       *)
(*                  arithmetic of _calc_price yields exactly that double). *)
(*   list           a mutable object: a cell of `heap`, named by its id.   *)
(*   tuple          an immutable value [t |-> "tuple", v |-> sequence].    *)
(***************************************************************************)
EXTENDS Integers, Sequences, FiniteSets, TLC

VARIABLES base, size, milk, syrups, sugar, iced, heap, ret, held, everSet,
          since

builder == <<base, size, milk, syrups, sugar, iced, heap>>
vars == <<base, size, milk, syrups, sugar, iced, heap, ret, held, everSet,
          since>>

---------------------------------------------------------------------------
(* Bounds of the model *)

\* distinct syrup flavours the caller asks for in SpecSyrups
NumFlavours == 5
\* distinct syrup flavours the caller asks for in the other specifications
FewFlavours == 2
\* blanks the caller may put before and after a syrup name
MaxPad == 1
\* how far below 0 and above MAX_SUGAR the integers given to set_sugar go
SugarSlack == 1

---------------------------------------------------------------------------
(* Constant tables of CoffeeOrderBuilder *)

None == "None"

BASE_PRICES ==
    [b \in {"espresso", "americano", "latte", "cappuccino"} |->
        CASE b = "espresso" -> 200
          [] b = "americano" -> 250
          [] b = "latte" -> 300
          [] b = "cappuccino" -> 320]

\* in tenths: 1.0, 1.2, 1.4
SIZE_MULTIPLIERS ==
    [s \in {"small", "medium", "large"} |->
        CASE s = "small" -> 10
          [] s = "medium" -> 12
          [] s = "large" -> 14]

MILK_PRICES ==
    [m \in {"none", "whole", "skim", "oat", "soy"} |->
        CASE m = "none" -> 0
          [] m = "whole" -> 30
          [] m = "skim" -> 30
          [] m = "oat" -> 60
          [] m = "soy" -> 50]

SYRUP_PRICE == 40
\* 0.2, in tenths
ICED_RATE == 2
MAX_SUGAR == 5
MAX_SYRUPS == 4

ALLOWED_BASES == DOMAIN BASE_PRICES
ALLOWED_SIZES == DOMAIN SIZE_MULTIPLIERS
\* ALLOWED_MILKS with a fault: "none" is not taken for a milk
ALLOWED_MILKS_no_none == DOMAIN MILK_PRICES \ {"none"}
ALLOWED_MILKS == DOMAIN MILK_PRICES

---------------------------------------------------------------------------
(* Python values *)

PyInt(n) == [t |-> "int", v |-> n]
PyBool(b) == [t |-> "bool", v |-> IF b THEN 1 ELSE 0]
\* the float n.0, the string "n", None
PyFloat(n) == [t |-> "float", v |-> n]
PyStr(n) == [t |-> "str", v |-> n]
PyNone == [t |-> "NoneType", v |-> 0]

\* isinstance(x, int): bool is a subclass of int
isinstance_int(x) == x.t \in {"int", "bool"}

\* str(x) for an int or a bool
py_str(x) ==
    IF x.t = "bool" THEN (IF x.v = 1 THEN "True" ELSE "False") ELSE ToString(x.v)

LowerLetters == <<"a", "b", "c", "d", "e", "f", "g", "h">>
UpperLetters == <<"A", "B", "C", "D", "E", "F", "G", "H">>
\* the ASCII whitespace str.strip() removes that the caller uses
Whitespace == {" ", "\t", "\n", "\r", "\f"}

\* str.lower(), one character
char_lower(c) ==
    IF \E i \in 1..Len(UpperLetters) : UpperLetters[i] = c
    THEN LowerLetters[CHOOSE i \in 1..Len(UpperLetters) : UpperLetters[i] = c]
    ELSE c

str_lower(s) == [i \in 1..Len(s) |-> char_lower(s[i])]

RECURSIVE str_lstrip(_)
str_lstrip(s) ==
    IF s # <<>> /\ Head(s) \in Whitespace THEN str_lstrip(Tail(s)) ELSE s

RECURSIVE str_rstrip(_)
str_rstrip(s) ==
    IF s # <<>> /\ s[Len(s)] \in Whitespace
    THEN str_rstrip(SubSeq(s, 1, Len(s) - 1))
    ELSE s

\* str.strip()
str_strip(s) == str_rstrip(str_lstrip(s))

\* a sequence of characters as one TLA+ string
RECURSIVE chars_to_string(_)
chars_to_string(s) ==
    IF s = <<>> THEN "" ELSE Head(s) \o chars_to_string(Tail(s))

\* sep.join(parts), parts a sequence of strings
RECURSIVE str_join(_, _)
str_join(sep, parts) ==
    IF parts = <<>> THEN ""
    ELSE IF Len(parts) = 1 THEN parts[1]
    ELSE parts[1] \o sep \o str_join(sep, Tail(parts))

\* x in seq, for a list or a tuple
seq_contains(s, x) == \E i \in 1..Len(s) : s[i] = x

---------------------------------------------------------------------------
(* Objects: the list self._syrups, tuples, the outcome of a call *)

ListIds == 0..1

TupleObj(s) == [t |-> "tuple", v |-> s]
ListRef(id) == [t |-> "list", v |-> id]

\* the items of a sequence object as the heap holds them now
items(o) == IF o.t = "list" THEN heap[o.v] ELSE o.v

Self == [kind |-> "builder"]
NoValue == [kind |-> "none"]
NoExc == [type |-> "none", msg |-> ""]

\* the call returned `val` at source line `line`; `name` is add_syrup's
\* local of that name, which the other methods do not have
Return(op, line, val) ==
    [op |-> op, line |-> line, exc |-> NoExc, val |-> val, name |-> <<>>]
\* the call raised ValueError(msg) at source line `line`
RaiseValueError(op, line, msg) ==
    [op |-> op, line |-> line, exc |-> [type |-> "ValueError", msg |-> msg],
     val |-> NoValue, name |-> <<>>]

failed(r) == r.exc # NoExc
returned(r) == r.exc = NoExc /\ r.op # "__init__"

\* the list ids an object refers to
list_refs(o) ==
    IF o.kind = "order" /\ o.syrups.t = "list" THEN {o.syrups.v} ELSE {}

\* [] : a new list object, at an id nothing the caller keeps refers to
new_list(keep) ==
    CHOOSE id \in ListIds :
        /\ id \notin list_refs(keep)
        /\ \A j \in ListIds : j \notin list_refs(keep) => id <= j

---------------------------------------------------------------------------
(* CoffeeOrderBuilder: the pure helpers *)

\* normalize with a fault: the name is trimmed and its case is kept
normalize_strip_only(syrup_name) == str_strip(syrup_name)

\* name = syrup_name.strip().lower()
normalize(syrup_name) == str_lower(str_strip(syrup_name))

\* sugar_out_of_range with a fault: >= for >
sugar_out_of_range_strict(teaspoons) ==
    teaspoons.v < 0 \/ teaspoons.v >= MAX_SUGAR

\* sugar_out_of_range with a fault: the upper bound is not checked
sugar_out_of_range_no_upper(teaspoons) == teaspoons.v < 0

\* teaspoons < 0 or teaspoons > self.MAX_SUGAR
sugar_out_of_range(teaspoons) == teaspoons.v < 0 \/ teaspoons.v > MAX_SUGAR

\* syrups_full with a fault: > for >=
syrups_full_off_by_one(list) == Len(list) > MAX_SYRUPS

\* len(self._syrups) >= self.MAX_SYRUPS
syrups_full(list) == Len(list) >= MAX_SYRUPS

\* tuple_of with a fault: the Order is given the builder's list itself
tuple_of_alias(id) == ListRef(id)

\* tuple(self._syrups): a new immutable sequence holding the list's items
tuple_of(id) == TupleObj(heap[id])

\* calc_price with a fault: the syrups are not charged
calc_price_syrups_uncharged(b, s, m, syrups_count, ic) ==
    BASE_PRICES[b] * SIZE_MULTIPLIERS[s] + 10 * MILK_PRICES[m]
    + (IF ic THEN BASE_PRICES[b] * ICED_RATE ELSE 0)

\* calc_price with a fault: the iced surcharge is taken on the sized price
calc_price_iced_on_sized(b, s, m, syrups_count, ic) ==
    LET sized == BASE_PRICES[b] * SIZE_MULTIPLIERS[s]
        extras == 10 * MILK_PRICES[m] + 10 * SYRUP_PRICE * syrups_count
    IN  sized + extras + (IF ic THEN (sized * ICED_RATE) \div 10 ELSE 0)

\* the price in tenths
calc_price(b, s, m, syrups_count, ic) ==
    LET base_price == BASE_PRICES[b]
        size_coef == SIZE_MULTIPLIERS[s]
        milk_extra == MILK_PRICES[m]
        syrups_extra == SYRUP_PRICE * syrups_count
        iced_extra == IF ic THEN base_price * ICED_RATE ELSE 0
    IN  base_price * size_coef + 10 * milk_extra + 10 * syrups_extra + iced_extra

\* f"{price:.2f}" of a price held in tenths
format_2f(p) == ToString(p \div 10) \o "." \o ToString(p % 10) \o "0"

\* CoffeeOrder.__str__
CoffeeOrder_str(o) ==
    IF o.description # ""
    THEN o.description
    ELSE o.size \o " " \o o.base \o " (" \o format_2f(o.price) \o ")"

\* make_description with a fault: the size and base clause is left out
make_description_extras_only(b, s, m, syr, sug, ic) ==
    LET p2 == IF m # "none" THEN <<"with " \o m \o " milk">> ELSE <<>>
        names == [i \in 1..Len(syr) |-> chars_to_string(syr[i])]
        p3 == IF syr # <<>>
              THEN <<"+ " \o str_join(", ", names) \o " syrup">>
              ELSE <<>>
        p4 == IF ic THEN <<"(iced)">> ELSE <<>>
        unit == IF sug.v = 1 THEN "tsp" ELSE "tsps"
        p5 == IF sug.v > 0
              THEN <<py_str(sug) \o " " \o unit \o " sugar">>
              ELSE <<>>
    IN  str_join(" ", p2 \o p3 \o p4 \o p5)

make_description(b, s, m, syr, sug, ic) ==
    LET p1 == <<s \o " " \o b>>
        p2 == IF m # "none" THEN <<"with " \o m \o " milk">> ELSE <<>>
        names == [i \in 1..Len(syr) |-> chars_to_string(syr[i])]
        p3 == IF syr # <<>>
              THEN <<"+ " \o str_join(", ", names) \o " syrup">>
              ELSE <<>>
        p4 == IF ic THEN <<"(iced)">> ELSE <<>>
        unit == IF sug.v = 1 THEN "tsp" ELSE "tsps"
        p5 == IF sug.v > 0
              THEN <<py_str(sug) \o " " \o unit \o " sugar">>
              ELSE <<>>
    IN  str_join(" ", p1 \o p2 \o p3 \o p4 \o p5)

\* make_order with a fault: every teaspoon of sugar is charged
make_order_sugar_charged ==
    LET syrups_tuple == tuple_of(syrups)
    IN  [kind |-> "order",
         base |-> base,
         size |-> size,
         milk |-> milk,
         syrups |-> syrups_tuple,
         sugar |-> sugar,
         iced |-> iced,
         price |-> calc_price(base, size, milk, Len(items(syrups_tuple)), iced)
                   + 100 * sugar.v,
         description |-> make_description(base, size, milk,
                                          items(syrups_tuple), sugar, iced)]

\* the CoffeeOrder that build constructs from the current fields
make_order ==
    LET syrups_tuple == tuple_of(syrups)
    IN  [kind |-> "order",
         base |-> base,
         size |-> size,
         milk |-> milk,
         syrups |-> syrups_tuple,
         sugar |-> sugar,
         iced |-> iced,
         price |-> calc_price(base, size, milk, Len(items(syrups_tuple)), iced),
         description |-> make_description(base, size, milk,
                                          items(syrups_tuple), sugar, iced)]

---------------------------------------------------------------------------
(* CoffeeOrderBuilder: construction and the methods *)

Init ==
    /\ base = None
    /\ size = None
    /\ milk = "none"
    /\ syrups = 0
    /\ heap = [i \in ListIds |-> <<>>]
    /\ sugar = PyInt(0)
    /\ iced = FALSE
    /\ ret = Return("__init__", 62, Self)
    /\ held = NoValue
    /\ everSet = [base |-> FALSE, size |-> FALSE]
    /\ since = [extras |-> FALSE, added |-> <<>>]

set_base(b) ==
    /\ IF b \notin ALLOWED_BASES
       THEN /\ ret' = RaiseValueError("set_base", 66, "base not allowed")
            /\ UNCHANGED <<base, everSet>>
       ELSE /\ base' = b
            /\ everSet' = [everSet EXCEPT !.base = TRUE]
            /\ ret' = Return("set_base", 68, Self)
    /\ UNCHANGED <<size, milk, syrups, sugar, iced, heap, held>>

\* set_size with a fault: a refused size leaves the builder without a size
set_size_reject_clears(s) ==
    /\ IF s \notin ALLOWED_SIZES
       THEN /\ size' = None
            /\ ret' = RaiseValueError("set_size", 72, "size not allowed")
            /\ UNCHANGED everSet
       ELSE /\ size' = s
            /\ everSet' = [everSet EXCEPT !.size = TRUE]
            /\ ret' = Return("set_size", 74, Self)
    /\ UNCHANGED <<base, milk, syrups, sugar, iced, heap, held>>

set_size(s) ==
    /\ IF s \notin ALLOWED_SIZES
       THEN /\ ret' = RaiseValueError("set_size", 72, "size not allowed")
            /\ UNCHANGED <<size, everSet>>
       ELSE /\ size' = s
            /\ everSet' = [everSet EXCEPT !.size = TRUE]
            /\ ret' = Return("set_size", 74, Self)
    /\ UNCHANGED <<base, milk, syrups, sugar, iced, heap, held>>

set_milk(m) ==
    /\ IF m \notin ALLOWED_MILKS
       THEN /\ ret' = RaiseValueError("set_milk", 78, "milk not allowed")
            /\ UNCHANGED milk
       ELSE /\ milk' = m
            /\ ret' = Return("set_milk", 80, Self)
    /\ UNCHANGED <<base, size, syrups, sugar, iced, heap, held, everSet>>

\* add_syrup with a fault: the capacity is checked before the duplicate
add_syrup_capacity_first(syrup_name) ==
    LET name == normalize(syrup_name)
    IN  /\ IF name = <<>>
           THEN /\ ret' = RaiseValueError("add_syrup", 85, "empty syrup name")
                /\ UNCHANGED heap
           ELSE IF syrups_full(heap[syrups])
           THEN /\ ret' = [RaiseValueError("add_syrup", 89, "too many syrups")
                              EXCEPT !.name = name]
                /\ UNCHANGED heap
           ELSE IF seq_contains(heap[syrups], name)
           THEN /\ ret' = [Return("add_syrup", 87, Self) EXCEPT !.name = name]
                /\ UNCHANGED heap
           ELSE /\ heap' = [heap EXCEPT ![syrups] = Append(@, name)]
                /\ ret' = [Return("add_syrup", 91, Self) EXCEPT !.name = name]
        /\ UNCHANGED <<base, size, milk, syrups, sugar, iced, held, everSet>>

\* add_syrup with a fault: a new name is put in front of the list
add_syrup_prepend(syrup_name) ==
    LET name == normalize(syrup_name)
    IN  /\ IF name = <<>>
           THEN /\ ret' = RaiseValueError("add_syrup", 85, "empty syrup name")
                /\ UNCHANGED heap
           ELSE IF seq_contains(heap[syrups], name)
           THEN /\ ret' = [Return("add_syrup", 87, Self) EXCEPT !.name = name]
                /\ UNCHANGED heap
           ELSE IF syrups_full(heap[syrups])
           THEN /\ ret' = [RaiseValueError("add_syrup", 89, "too many syrups")
                              EXCEPT !.name = name]
                /\ UNCHANGED heap
           ELSE /\ heap' = [heap EXCEPT ![syrups] = <<name>> \o @]
                /\ ret' = [Return("add_syrup", 91, Self) EXCEPT !.name = name]
        /\ UNCHANGED <<base, size, milk, syrups, sugar, iced, held, everSet>>

add_syrup(syrup_name) ==
    LET name == normalize(syrup_name)
    IN  /\ IF name = <<>>
           THEN /\ ret' = RaiseValueError("add_syrup", 85, "empty syrup name")
                /\ UNCHANGED heap
           ELSE IF seq_contains(heap[syrups], name)
           THEN /\ ret' = [Return("add_syrup", 87, Self) EXCEPT !.name = name]
                /\ UNCHANGED heap
           ELSE IF syrups_full(heap[syrups])
           THEN /\ ret' = [RaiseValueError("add_syrup", 89, "too many syrups")
                              EXCEPT !.name = name]
                /\ UNCHANGED heap
           ELSE /\ heap' = [heap EXCEPT ![syrups] = Append(@, name)]
                /\ ret' = [Return("add_syrup", 91, Self) EXCEPT !.name = name]
        /\ UNCHANGED <<base, size, milk, syrups, sugar, iced, held, everSet>>

\* set_sugar with a fault: the value is stored before it is validated
set_sugar_store_first(teaspoons) ==
    /\ sugar' = teaspoons
    /\ IF ~isinstance_int(teaspoons)
       THEN ret' = RaiseValueError("set_sugar", 95, "sugar not an int")
       ELSE IF sugar_out_of_range(teaspoons)
       THEN ret' = RaiseValueError("set_sugar", 97, "sugar out of range")
       ELSE ret' = Return("set_sugar", 99, Self)
    /\ UNCHANGED <<base, size, milk, syrups, iced, heap, held, everSet>>

set_sugar(teaspoons) ==
    /\ IF ~isinstance_int(teaspoons)
       THEN /\ ret' = RaiseValueError("set_sugar", 95, "sugar not an int")
            /\ UNCHANGED sugar
       ELSE IF sugar_out_of_range(teaspoons)
       THEN /\ ret' = RaiseValueError("set_sugar", 97, "sugar out of range")
            /\ UNCHANGED sugar
       ELSE /\ sugar' = teaspoons
            /\ ret' = Return("set_sugar", 99, Self)
    /\ UNCHANGED <<base, size, milk, syrups, iced, heap, held, everSet>>

set_iced(flag) ==
    /\ iced' = flag
    /\ ret' = Return("set_iced", 103, Self)
    /\ UNCHANGED <<base, size, milk, syrups, sugar, heap, held, everSet>>

\* clear_extras with a fault: the reset takes base along
clear_extras_and_base ==
    LET fresh == new_list(held)
    IN  /\ base' = None
        /\ milk' = "none"
        /\ syrups' = fresh
        /\ heap' = [heap EXCEPT ![fresh] = <<>>]
        /\ sugar' = PyInt(0)
        /\ iced' = FALSE
        /\ ret' = Return("clear_extras", 111, Self)
        /\ UNCHANGED <<size, held, everSet>>

\* clear_extras with a fault: the sugar is left as it was
clear_extras_keeps_sugar ==
    LET fresh == new_list(held)
    IN  /\ milk' = "none"
        /\ syrups' = fresh
        /\ heap' = [heap EXCEPT ![fresh] = <<>>]
        /\ iced' = FALSE
        /\ ret' = Return("clear_extras", 111, Self)
        /\ UNCHANGED <<base, size, sugar, held, everSet>>

\* clear_extras with a fault: the iced flag is left as it was
clear_extras_keeps_iced ==
    LET fresh == new_list(held)
    IN  /\ milk' = "none"
        /\ syrups' = fresh
        /\ heap' = [heap EXCEPT ![fresh] = <<>>]
        /\ sugar' = PyInt(0)
        /\ ret' = Return("clear_extras", 111, Self)
        /\ UNCHANGED <<base, size, iced, held, everSet>>

clear_extras ==
    LET fresh == new_list(held)
    IN  /\ milk' = "none"
        /\ syrups' = fresh
        /\ heap' = [heap EXCEPT ![fresh] = <<>>]
        /\ sugar' = PyInt(0)
        /\ iced' = FALSE
        /\ ret' = Return("clear_extras", 111, Self)
        /\ UNCHANGED <<base, size, held, everSet>>

\* build with a fault: the extras are reset once the Order is made
build_then_clear ==
    /\ IF base = None
       THEN /\ ret' = RaiseValueError("build", 115, "base not set")
            /\ UNCHANGED <<milk, heap, sugar, iced>>
       ELSE IF size = None
       THEN /\ ret' = RaiseValueError("build", 117, "size not set")
            /\ UNCHANGED <<milk, heap, sugar, iced>>
       ELSE /\ ret' = Return("build", 139, make_order)
            /\ milk' = "none"
            /\ heap' = [heap EXCEPT ![syrups] = <<>>]
            /\ sugar' = PyInt(0)
            /\ iced' = FALSE
    /\ UNCHANGED <<base, size, syrups, held, everSet>>

build ==
    /\ IF base = None
       THEN ret' = RaiseValueError("build", 115, "base not set")
       ELSE IF size = None
       THEN ret' = RaiseValueError("build", 117, "size not set")
       ELSE ret' = Return("build", 139, make_order)
    /\ UNCHANGED <<base, size, milk, syrups, sugar, iced, heap, held, everSet>>

\* the caller keeps the Order that build has just returned
keep_order ==
    /\ ret.val.kind = "order"
    /\ held # ret.val
    /\ held' = ret.val
    /\ UNCHANGED <<base, size, milk, syrups, sugar, iced, heap, ret, everSet>>

---------------------------------------------------------------------------
(* The history of the calls since construction or the last clear_extras *)

ExtrasOps == {"set_milk", "add_syrup", "set_sugar", "set_iced"}

\* the history after a call with outcome r: `extras` tells that a method
\* of the extras was called, `added` lists the distinct names add_syrup
\* returned for, in the order of their first such call
logged(h, r) ==
    IF r.op = "clear_extras" THEN [extras |-> FALSE, added |-> <<>>]
    ELSE IF r.op = "add_syrup" /\ returned(r) /\ ~seq_contains(h.added, r.name)
    THEN [extras |-> TRUE, added |-> Append(h.added, r.name)]
    ELSE IF r.op \in ExtrasOps THEN [h EXCEPT !.extras = TRUE]
    ELSE h

---------------------------------------------------------------------------
(* The caller's arguments *)

Blanks(n) == [i \in 1..n |-> " "]

\* flavour i of n in the letters L: one letter, the last flavour two words
Flavour(i, n, L) == IF i = n THEN <<L[i], " ", L[1]>> ELSE <<L[i]>>

\* the first flavour in either case with every padding, the other flavours
\* plain and in capitals with full padding, and blank names
SyrupArgs(n) ==
    {Blanks(l) \o Flavour(1, n, L) \o Blanks(r) :
        l \in 0..MaxPad, r \in 0..MaxPad, L \in {LowerLetters, UpperLetters}}
    \cup {Flavour(i, n, LowerLetters) : i \in 1..n}
    \cup {Blanks(MaxPad) \o Flavour(i, n, UpperLetters) \o <<"\t">> : i \in 1..n}
    \cup {Blanks(k) : k \in 0..MaxPad}

BaseArgs == {"espresso", "americano", "latte", "cappuccino", "mocha", "Latte"}
SizeArgs == {"small", "medium", "large", "huge", "Small"}
MilkArgs == {"none", "whole", "skim", "oat", "soy", "almond", ""}
SugarArgs ==
    {PyInt(n) : n \in (0 - SugarSlack)..(5 + SugarSlack)}
    \cup {PyBool(TRUE), PyBool(FALSE), PyFloat(2), PyStr(2), PyNone}

FewBaseArgs == {"latte", "mocha"}
FewSizeArgs == {"medium", "huge"}
FewMilkArgs == {"oat", "almond"}
FewSugarArgs == {PyInt(1), PyInt(6), PyFloat(2)}

---------------------------------------------------------------------------
(* Specifications *)

\* every base, size and milk; few sugars and syrups
Next ==
    \/ \E b \in BaseArgs : set_base(b) /\ since' = logged(since, ret')
    \/ \E s \in SizeArgs : set_size(s) /\ since' = logged(since, ret')
    \/ \E m \in MilkArgs : set_milk(m) /\ since' = logged(since, ret')
    \/ \E n \in SyrupArgs(FewFlavours) : add_syrup(n) /\ since' = logged(since, ret')
    \/ \E t \in FewSugarArgs \cup {PyBool(TRUE)} : set_sugar(t) /\ since' = logged(since, ret')
    \/ \E f \in BOOLEAN : set_iced(f) /\ since' = logged(since, ret')
    \/ clear_extras /\ since' = logged(since, ret')
    \/ build /\ since' = logged(since, ret')

Spec == Init /\ [][Next]_vars

\* many syrups; few of the rest
NextSyrups ==
    \/ \E b \in FewBaseArgs : set_base(b) /\ since' = logged(since, ret')
    \/ \E s \in FewSizeArgs : set_size(s) /\ since' = logged(since, ret')
    \/ \E m \in FewMilkArgs : set_milk(m) /\ since' = logged(since, ret')
    \/ \E n \in SyrupArgs(NumFlavours) : add_syrup(n) /\ since' = logged(since, ret')
    \/ \E t \in FewSugarArgs : set_sugar(t) /\ since' = logged(since, ret')
    \/ \E f \in BOOLEAN : set_iced(f) /\ since' = logged(since, ret')
    \/ clear_extras /\ since' = logged(since, ret')
    \/ build /\ since' = logged(since, ret')

SpecSyrups == Init /\ [][NextSyrups]_vars

\* every sugar; few of the rest
NextSugar ==
    \/ \E b \in FewBaseArgs : set_base(b) /\ since' = logged(since, ret')
    \/ \E s \in FewSizeArgs : set_size(s) /\ since' = logged(since, ret')
    \/ \E m \in FewMilkArgs : set_milk(m) /\ since' = logged(since, ret')
    \/ \E n \in SyrupArgs(FewFlavours) : add_syrup(n) /\ since' = logged(since, ret')
    \/ \E t \in SugarArgs : set_sugar(t) /\ since' = logged(since, ret')
    \/ \E f \in BOOLEAN : set_iced(f) /\ since' = logged(since, ret')
    \/ clear_extras /\ since' = logged(since, ret')
    \/ build /\ since' = logged(since, ret')

SpecSugar == Init /\ [][NextSugar]_vars

\* the caller keeps Orders while it goes on using the builder
NextKeep ==
    \/ \E b \in FewBaseArgs : set_base(b) /\ since' = logged(since, ret')
    \/ \E s \in FewSizeArgs : set_size(s) /\ since' = logged(since, ret')
    \/ \E m \in FewMilkArgs : set_milk(m) /\ since' = logged(since, ret')
    \/ \E n \in SyrupArgs(FewFlavours) : add_syrup(n) /\ since' = logged(since, ret')
    \/ \E t \in FewSugarArgs : set_sugar(t) /\ since' = logged(since, ret')
    \/ \E f \in BOOLEAN : set_iced(f) /\ since' = logged(since, ret')
    \/ clear_extras /\ since' = logged(since, ret')
    \/ build /\ since' = logged(since, ret')
    \/ keep_order /\ UNCHANGED since

SpecKeep == Init /\ [][NextKeep]_vars

---------------------------------------------------------------------------
(* Properties *)

\* what a reader of an Order sees in its fields now
order_view(o) == [o EXCEPT !.syrups = items(o.syrups)]

\* the Orders the caller has: the one just returned and the one it kept
Orders == {o \in {ret.val, held} : o.kind = "order"}

\* C1: a call that fails (any mutator, or build) leaves the six builder
\* fields, the syrup list's items included, exactly as they were.
C1_FailureAtomic ==
    [][failed(ret') => builder' = builder]_vars

\* C1 witness: a fifth syrup was refused on a builder whose fields are all set
C1_Witness ==
    /\ ret.op = "add_syrup" /\ failed(ret)
    /\ Len(heap[syrups]) = MAX_SYRUPS
    /\ base # None /\ size # None /\ milk # "none" /\ sugar.v > 0 /\ iced

\* C2: build fails, with the "not set" ValueError of lines 115/117 (the
\* spec's IncompleteOrder), exactly when set_base has never succeeded or
\* set_size has never succeeded; otherwise it returns an Order.
C2_BuildFailsIffIncomplete ==
    ret.op = "build" =>
        /\ failed(ret) <=> (~everSet.base \/ ~everSet.size)
        /\ failed(ret) =>
              /\ ret.exc.type = "ValueError"
              /\ ret.exc.msg = (IF ~everSet.base THEN "base not set"
                                ELSE "size not set")
        /\ ~failed(ret) => ret.val.kind = "order"

\* C2 witness: build refused a builder that has a base and extras and no
\* size
C2_Witness ==
    /\ ret.op = "build" /\ failed(ret)
    /\ everSet.base /\ ~everSet.size
    /\ milk # "none" /\ heap[syrups] # <<>>

\* C3: build changes no builder field; a build that directly follows a
\* build returns an Order equal in every field; and after a build the
\* builder takes valid mutator calls as before.
C3_BuildRepeatable ==
    [][/\ ret'.op = "build" => builder' = builder
       /\ (ret.op = "build" /\ returned(ret) /\ ret'.op = "build")
             => /\ returned(ret')
                /\ order_view(ret'.val) = order_view(ret.val)
       /\ (ret.op = "build" /\ returned(ret))
             => /\ \A b \in {"espresso", "americano", "latte", "cappuccino"} :
                      set_base(b) => returned(ret') /\ base' = b
                /\ \A s \in {"small", "medium", "large"} :
                      set_size(s) => returned(ret') /\ size' = s
                /\ \A m \in {"none", "whole", "skim", "oat", "soy"} :
                      set_milk(m) => returned(ret') /\ milk' = m
                /\ \A t \in {PyInt(1), PyBool(TRUE)} :
                      set_sugar(t) => returned(ret') /\ sugar' = t
                /\ \A f \in BOOLEAN :
                      set_iced(f) => returned(ret') /\ iced' = f
                /\ (/\ ret'.op = "add_syrup" /\ ret'.name # <<>>
                    /\ ~seq_contains(heap[syrups], ret'.name))
                      => /\ returned(ret')
                         /\ heap'[syrups'] = Append(heap[syrups], ret'.name)
                /\ clear_extras => returned(ret') /\ heap'[syrups'] = <<>>
      ]_vars

\* C3 witness: build returned an Order of a builder that carries extras
C3_Witness ==
    /\ ret.op = "build" /\ returned(ret)
    /\ Len(heap[syrups]) = 2 /\ milk = "soy" /\ sugar.v = 1 /\ iced

\* C4: an Order the caller keeps reads the same after every later call on
\* the builder that made it.
C4_SnapshotIsolation ==
    [][(held.kind = "order" /\ held' = held)
          => order_view(held)' = order_view(held)]_vars

\* C4 witness: the kept Order differs from the builder in syrups, milk,
\* sugar and iced, the builder having been changed after the build
C4_Witness ==
    /\ held.kind = "order"
    /\ ret.op \in {"add_syrup", "clear_extras"} /\ returned(ret)
    /\ items(held.syrups) # heap[syrups]
    /\ held.milk # milk /\ held.sugar # sugar /\ held.iced # iced

\* a name is trimmed, lower-case and not empty
IsNormalName(nm) ==
    /\ nm # <<>>
    /\ nm[1] \notin Whitespace /\ nm[Len(nm)] \notin Whitespace
    /\ \A i \in 1..Len(nm) : \A j \in 1..Len(UpperLetters) : nm[i] # UpperLetters[j]

IsSyrupList(l) ==
    /\ Len(l) \in 0..4
    /\ \A i \in 1..Len(l) : IsNormalName(l[i])
    /\ \A i, j \in 1..Len(l) : i # j => l[i] # l[j]

\* C5: the builder's syrup list, and the syrups of every Order built from
\* it, hold only trimmed lower-case non-empty names, no name twice, and at
\* most 4 names.
C5_SyrupListInvariant ==
    /\ IsSyrupList(heap[syrups])
    /\ \A o \in Orders : IsSyrupList(items(o.syrups))

\* C5 witness: an Order with 4 syrups, the two-word one among them
C5_Witness ==
    /\ ret.op = "build" /\ returned(ret)
    /\ Len(items(ret.val.syrups)) = MAX_SYRUPS
    /\ \E i \in 1..MAX_SYRUPS : Len(items(ret.val.syrups)[i]) = 3

\* C6: add_syrup of a name whose trimmed lower-case form is already in the
\* list returns without error and leaves the list as it is, also when the
\* list holds 4 names.
C6_AddSyrupIdempotent ==
    [][(ret'.op = "add_syrup" /\ seq_contains(heap[syrups], ret'.name))
          => /\ returned(ret')
             /\ heap'[syrups'] = heap[syrups]
      ]_vars

\* C6 witness: add_syrup returned at the duplicate check on a full list
C6_Witness ==
    /\ ret.op = "add_syrup" /\ returned(ret) /\ ret.line = 87
    /\ Len(heap[syrups]) = MAX_SYRUPS

\* C7: add_syrup of a non-empty name that is not in the list raises the
\* "too many syrups" ValueError of line 89 (the spec's CapacityExceeded)
\* and leaves the list as it is when the list holds 4 names, and returns
\* with the list one longer when it holds fewer.
C7_SyrupCapacity ==
    [][LET old == heap[syrups]
       IN  (/\ ret'.op = "add_syrup"
            /\ ret'.name # <<>>
            /\ ~seq_contains(old, ret'.name))
              => IF Len(old) >= 4
                 THEN /\ failed(ret')
                      /\ ret'.exc = [type |-> "ValueError",
                                     msg |-> "too many syrups"]
                      /\ heap'[syrups'] = old
                 ELSE /\ returned(ret')
                      /\ Len(heap'[syrups']) = Len(old) + 1
      ]_vars

\* C7 witness: a fifth name was refused
C7_Witness ==
    /\ ret.op = "add_syrup" /\ failed(ret) /\ ret.line = 89
    /\ Len(heap[syrups]) = 4

\* C8: set_sugar of an int from 0 to 5 (a bool is an int in Python: False
\* is 0 and True is 1) returns and stores the value; of any other int, and
\* of a value that is no int, it raises the ValueError of lines 95/97 (the
\* spec's InvalidArgument) and sugar keeps its value.
C8_SetSugarRange ==
    [][\A t \in SugarArgs :
          set_sugar(t)
             => IF t.t \in {"int", "bool"} /\ t.v \in 0..5
                THEN returned(ret') /\ sugar' = t
                ELSE /\ failed(ret')
                     /\ ret'.exc.type = "ValueError"
                     /\ ret'.exc.msg \in {"sugar not an int", "sugar out of range"}
                     /\ sugar' = sugar
      ]_vars

\* C8 witness: set_sugar refused a value after it had accepted 5
C8_Witness ==
    /\ ret.op = "set_sugar" /\ failed(ret)
    /\ sugar = PyInt(5)

\* set_base, set_size and set_milk take exactly the members of their sets
SelectionsAccepted ==
    /\ \A b \in BaseArgs :
          set_base(b)
             => IF b \in {"espresso", "americano", "latte", "cappuccino"}
                THEN returned(ret') /\ base' = b
                ELSE failed(ret') /\ base' = base
    /\ \A s \in SizeArgs :
          set_size(s)
             => IF s \in {"small", "medium", "large"}
                THEN returned(ret') /\ size' = s
                ELSE failed(ret') /\ size' = size
    /\ \A m \in MilkArgs :
          set_milk(m)
             => IF m \in {"none", "whole", "skim", "oat", "soy"}
                THEN returned(ret') /\ milk' = m
                ELSE failed(ret') /\ milk' = milk

SelectionOps == {"set_base", "set_size", "set_milk"}

\* C9 as amended: set_base, set_size and set_milk take exactly the members
\* of their sets (4 bases, 3 sizes, 5 milks) and store the value; any other
\* value raises ValueError, which is the type of every error of the builder.
C9_SelectionsValidated ==
    [][/\ SelectionsAccepted
       /\ failed(ret') => ret'.exc.type = "ValueError"
      ]_vars

\* C9 witness: set_milk refused a value on a builder whose selections are set
C9_Witness ==
    /\ ret.op = "set_milk" /\ failed(ret)
    /\ base = "cappuccino" /\ size = "large" /\ milk = "skim"

\* C9 as stated: ..., and the error of a refused selection is of another
\* kind than the error of a refused add_syrup, set_sugar or build.
C9_DistinctErrorKind ==
    [][/\ SelectionsAccepted
       /\ (/\ failed(ret) /\ ret.op \in SelectionOps
           /\ failed(ret') /\ ret'.op \notin SelectionOps)
             => ret'.exc.type # ret.exc.type
      ]_vars

\* C10: every Order has its base, size and milk in the allowed sets, an int
\* from 0 to 5 for sugar and a boolean for iced.
C10_OrderFieldsValid ==
    \A o \in Orders :
        /\ o.base \in {"espresso", "americano", "latte", "cappuccino"}
        /\ o.size \in {"small", "medium", "large"}
        /\ o.milk \in {"none", "whole", "skim", "oat", "soy"}
        /\ o.sugar.t \in {"int", "bool"} /\ o.sugar.v \in 0..5
        /\ o.iced \in BOOLEAN

\* C10 witness: an Order built after set_sugar, set_size and set_base each
\* refused a value
C10_Witness ==
    /\ ret.op = "build" /\ returned(ret)
    /\ ret.val.base = "americano" /\ ret.val.size = "large"
    /\ ret.val.milk = "whole" /\ ret.val.sugar.v = 1 /\ ret.val.iced

---------------------------------------------------------------------------
(* Prices.  As in calc_price, a price is held in tenths of the price unit. *)

\* the price tables of the specification, written out
listed_base_price(b) ==
    CASE b = "espresso" -> 200 [] b = "americano" -> 250
      [] b = "latte" -> 300 [] b = "cappuccino" -> 320

listed_size_tenths(s) ==
    CASE s = "small" -> 10 [] s = "medium" -> 12 [] s = "large" -> 14

listed_milk_surcharge(m) ==
    CASE m = "none" -> 0 [] m = "whole" -> 30 [] m = "skim" -> 30
      [] m = "oat" -> 60 [] m = "soy" -> 50

\* base_price * size_multiplier + milk_surcharge + SYRUP_PRICE * |syrups|
\* + (base_price * ICED_RATE if iced else 0), in tenths
listed_price(o) ==
    listed_base_price(o.base) * listed_size_tenths(o.size)
    + 10 * listed_milk_surcharge(o.milk)
    + 10 * 40 * Len(items(o.syrups))
    + (IF o.iced THEN listed_base_price(o.base) * 2 ELSE 0)

\* C11: the price of every Order is base_price * size_multiplier +
\* milk_surcharge + SYRUP_PRICE * (number of syrups) + base_price *
\* ICED_RATE when iced; a small iced espresso with one syrup costs 280.0.
C11_PriceFormula ==
    \A o \in Orders :
        /\ o.price = listed_price(o)
        /\ (/\ o.base = "espresso" /\ o.size = "small" /\ o.milk = "none"
            /\ Len(items(o.syrups)) = 1 /\ o.iced) => o.price = 2800

C11_Witness ==
    /\ ret.op = "build" /\ returned(ret)
    /\ ret.val.base = "espresso" /\ ret.val.size = "small"
    /\ ret.val.milk = "none" /\ Len(items(ret.val.syrups)) = 1
    /\ ret.val.iced /\ ret.val.price = 2800

\* C12: an Order built while no extras method has been called since
\* construction or since the last clear_extras has price base_price *
\* size_multiplier, milk "none", no syrups, sugar 0 and iced false.
C12_DefaultsWithoutExtras ==
    (ret.op = "build" /\ returned(ret) /\ ~since.extras) =>
        /\ ret.val.price =
               listed_base_price(ret.val.base) * listed_size_tenths(ret.val.size)
        /\ ret.val.milk = "none"
        /\ items(ret.val.syrups) = <<>>
        /\ ret.val.sugar = PyInt(0)
        /\ ret.val.iced = FALSE

C12_Witness ==
    /\ ret.op = "build" /\ returned(ret) /\ ~since.extras
    /\ ret.val.base = "cappuccino" /\ ret.val.size = "large"
    /\ ret.val.price = 4480

\* the builder can build: both required fields are set
buildable == base # None /\ size # None

size_rank(s) == CASE s = "small" -> 1 [] s = "medium" -> 2 [] s = "large" -> 3

\* the price build would charge for the fields as they are
price_now == calc_price(base, size, milk, Len(heap[syrups]), iced)

\* C13: with everything else the same, the price build would give rises
\* strictly when a new syrup is added, when the order becomes iced and
\* when the size is replaced by a larger one (small < medium < large).
C13_PriceMonotonic ==
    [][(/\ ret'.op \in {"add_syrup", "set_iced", "set_size"}
        /\ buildable /\ buildable' /\ base' = base /\ milk' = milk) =>
           /\ (/\ ret'.op = "add_syrup" /\ ret'.line = 91
               /\ size' = size /\ iced' = iced)
                  => price_now' > price_now
           /\ (/\ ret'.op = "set_iced" /\ ~iced /\ iced'
               /\ size' = size /\ heap'[syrups'] = heap[syrups])
                  => price_now' > price_now
           /\ (/\ ret'.op = "set_size" /\ size_rank(size) < size_rank(size')
               /\ iced' = iced /\ heap'[syrups'] = heap[syrups])
                  => price_now' > price_now
      ]_vars

C13_Witness ==
    /\ ret.op = "set_size" /\ returned(ret) /\ size = "large"
    /\ base = "americano" /\ iced /\ Len(heap[syrups]) = 2

\* C14: two Orders that agree on base, size, milk, iced and on the number
\* of their syrups have the same price, whatever their sugar and whichever
\* syrups they hold.
C14_PriceIgnoresSugarAndNames ==
    \A o1, o2 \in Orders :
        (/\ o1.base = o2.base /\ o1.size = o2.size /\ o1.milk = o2.milk
         /\ o1.iced = o2.iced
         /\ Len(items(o1.syrups)) = Len(items(o2.syrups)))
            => o1.price = o2.price

C14_Witness ==
    /\ ret.op = "build" /\ returned(ret) /\ held # NoValue
    /\ held.base = ret.val.base /\ held.size = ret.val.size
    /\ held.milk = ret.val.milk /\ held.iced = ret.val.iced
    /\ Len(items(held.syrups)) = 1 /\ Len(items(ret.val.syrups)) = 1
    /\ items(held.syrups) # items(ret.val.syrups)
    /\ held.sugar.v # ret.val.sugar.v
    /\ held.price = ret.val.price

---------------------------------------------------------------------------
(* Descriptions *)

\* the clauses of the specification's description, each with its separator
clause_milk(o) == IF o.milk # "none" THEN " with " \o o.milk \o " milk" ELSE ""

clause_syrups(o) ==
    LET syr == items(o.syrups)
        names == [i \in 1..Len(syr) |-> chars_to_string(syr[i])]
    IN  IF syr # <<>> THEN " + " \o str_join(", ", names) \o " syrup" ELSE ""

clause_iced(o) == IF o.iced THEN " (iced)" ELSE ""

clause_sugar(o) ==
    IF o.sugar.v = 1 THEN " " \o ToString(o.sugar.v) \o " tsp sugar"
    ELSE IF o.sugar.v > 1 THEN " " \o ToString(o.sugar.v) \o " tsps sugar"
    ELSE ""

listed_description(o) ==
    o.size \o " " \o o.base
    \o clause_milk(o) \o clause_syrups(o) \o clause_iced(o) \o clause_sugar(o)

\* C15: the description of every Order is the space-joined clauses
\* "{size} {base}", "with {milk} milk" iff milk is not "none",
\* "+ {names joined by ', '} syrup" iff there are syrups, "(iced)" iff
\* iced, and "{sugar} tsp sugar" for sugar 1 or "{sugar} tsps sugar" for
\* sugar above 1, in this order.
C15_DescriptionFormat ==
    \A o \in Orders : o.description = listed_description(o)

\* the description is the listed one for every Order whose sugar was given
\* as a plain int; set_sugar(True) gives the Order the sugar True
C15_DescriptionOfIntSugar ==
    \A o \in Orders : o.sugar.t = "int" => o.description = listed_description(o)

C15_BoolSugarDescribed ==
    /\ ret.op = "build" /\ returned(ret)
    /\ ret.val.sugar = PyBool(TRUE)
    /\ ret.val.description = "medium latte True tsp sugar"

---------------------------------------------------------------------------
(* clear_extras and the required fields *)

extras_default ==
    /\ milk = "none" /\ heap[syrups] = <<>> /\ sugar = PyInt(0) /\ iced = FALSE

\* C16: clear_extras can be called in every state and always returns; it
\* leaves milk "none", no syrups, sugar 0 and iced false, and base and size
\* as they were, set or unset; a second clear_extras changes nothing.
C16_ClearExtras ==
    /\ [](ENABLED clear_extras)
    /\ [][ret'.op = "clear_extras" =>
              /\ returned(ret')
              /\ extras_default'
              /\ base' = base /\ size' = size
              /\ ret.op = "clear_extras" =>
                     (milk' = milk /\ heap'[syrups'] = heap[syrups]
                      /\ sugar' = sugar /\ iced' = iced)
         ]_vars

C16_Witness ==
    /\ ret.op = "clear_extras" /\ returned(ret) /\ extras_default
    /\ base = None /\ size = "large"

\* C18: no call returns base or size to unset, and once set_base and
\* set_size have each succeeded every build succeeds, whatever was called
\* in between.
C18_BuildStaysEnabled ==
    [][/\ base # None => base' # None
       /\ size # None => size' # None
       /\ (everSet'.base /\ everSet'.size) => buildable'
       /\ (everSet'.base /\ everSet'.size /\ ret'.op = "build")
              => (returned(ret') /\ ret'.val.kind = "order")
      ]_vars

C18_Witness ==
    /\ ret.op = "build" /\ returned(ret) /\ ret.val.kind = "order"
    /\ everSet.base /\ everSet.size
    /\ since.extras /\ Len(since.added) = 2 /\ sugar = PyInt(1)

---------------------------------------------------------------------------
(* The order of the syrups *)

\* C19: an add_syrup that adds a new name appends it after the names the
\* list holds, which stay as they were; the syrups of the builder and of
\* every Order it builds are the distinct names added since construction
\* or the last clear_extras, in the order of their first successful
\* addition.
C19_InsertionOrder ==
    [][/\ (ret'.op = "add_syrup" /\ ret'.line = 91) =>
              /\ ~seq_contains(heap[syrups], ret'.name)
              /\ heap'[syrups'] = Append(heap[syrups], ret'.name)
       /\ heap'[syrups'] = since'.added
       /\ (ret'.op = "build" /\ returned(ret')) =>
              items(ret'.val.syrups) = since'.added
      ]_vars

C19_Witness ==
    /\ ret.op = "build" /\ returned(ret)
    /\ Len(items(ret.val.syrups)) = 3
    /\ items(ret.val.syrups) = since.added
    /\ ret.val.syrups.v[1] = <<"b">> /\ ret.val.syrups.v[3] = <<"a">>

\* the fallback form of CoffeeOrder.__str__
fallback_form(o) == o.size \o " " \o o.base \o " (" \o format_2f(o.price) \o ")"

\* C20: the description of every Order is non-empty, so its rendering is
\* its description and never the fallback form "{size} {base} ({price})".
C20_DescriptionNonEmpty ==
    \A o \in Orders :
        /\ o.description # ""
        /\ CoffeeOrder_str(o) = o.description
        /\ CoffeeOrder_str(o) # fallback_form(o)

C20_Witness ==
    /\ ret.op = "build" /\ returned(ret) /\ ~since.extras
    /\ ret.val.description = "small espresso"
    /\ CoffeeOrder_str(ret.val) = "small espresso"
    /\ fallback_form(ret.val) = "small espresso (200.00)"

====
